---- MODULE Spec2Model ----
(***************************************************************************)
(* Display7Seg: driver for a multiplexed multi-digit seven-segment         *)
(* display (src/Display7Seg.h).  The model follows the class member by     *)
(* member.  Every digitalWrite and every access to the volatile members    *)
(* is one step of the calling context, so that the states between two line *)
(* writes of one operation are states of the model.                        *)
(***************************************************************************)
EXTENDS Integers, Sequences, FiniteSets, TLC

\* ------------------------------------------------------------------ bounds
\* Largest template argument numdigits that is explored (1..MaxDigits).
MaxDigits == 3
\* Longest run of consecutive show() calls that is counted.
MaxTicks == 4

\* Largest value that is handed to setValue (0..MaxValue).
MaxValue == 1300

\* ------------------------------------------------- template parameters
\* havedp, digiton, segmenton as the Timer example instantiates the class.
havedp == TRUE
digiton == TRUE
segmenton == TRUE
\* _countof(_segmentpins)
NumSegments == IF havedp THEN 8 ELSE 7

\* ---------------------------------------------------------------- bytes
Byte == 0..255
\* (v >> k) & 1
Bit(v, k) == (v \div (2 ^ k)) % 2
\* v | B10000000
OrDp(v) == IF Bit(v, 7) = 1 THEN v ELSE v + 128
\* conversion of an unsigned to byte
ToByte(v) == v % 256

\* static const byte table[16] of setNumber, 1-indexed here
table ==
  << 63, 6, 91, 79, 102, 109, 125, 7, 127, 111,
     119, 124, 57, 94, 121, 113 >>

\* What a read of table[16], one past the end of the table, may return: the
\* byte the linker placed after the table.  Two values stand for it.
TableOverrun == {6, 134}

\* --------------------------------------------------------------- inputs
\* Bitmaps the callers store with setSegments and through operator[].
Bitmaps == {0, 134}
AccessBitmaps == {6}
\* num arguments of setNumber: a glyph, the value the guard still lets
\* through, and the first value it rejects.
Nums == {1, 16, 17}
\* value arguments of setValue in the display specification.
Values == {1, 11}
\* The two execution contexts that may call into the object.
Contexts == {"main", "isr"}

VARIABLES
  numdigits,   \* template parameter numdigits of this instantiation
  _display,    \* volatile byte _display[numdigits]
  _curdigit,   \* volatile byte _curdigit
  dummy,       \* static byte dummy of operator[]
  digitOut,    \* level last written to each digit pin
  segOut,      \* level last written to each segment pin
  bound,       \* begin() has returned
  pc,          \* per context: the statement it is at ("idle": outside)
  newdigit,    \* per context: showDigit's parameter / show's nextdigit
  b,           \* per context: showDigit's local b
  i,           \* per context: loop index
  t,           \* per context: the _curdigit value read for line 178
  op,          \* the public operation called last, with its arguments
  tickStart,   \* _curdigit when the current run of show() calls began
  tickCount    \* number of consecutive show() calls in the current run

vars ==
  << numdigits, _display, _curdigit, dummy, digitOut, segOut, bound,
     pc, newdigit, b, i, t, op, tickStart, tickCount >>

locals == << newdigit, b, i, t >>
pins == << digitOut, segOut >>
ticks == << tickStart, tickCount >>

Digits == 0..(numdigits - 1)
Segments == 0..(NumSegments - 1)
\* index arguments: every digit, the sentinel, and one beyond it
Indices == 0..(numdigits + 1)

\* A just constructed object: the constructor clears _display and leaves
\* _curdigit uninitialized (0 for an object of static storage, any byte
\* otherwise; the values below stand for: a digit, the sentinel, beyond).
Uninitialized == (0..(numdigits + 1)) \cup {255}

\* op: the operation (kind), its digit index, its show / onoff / blank flag,
\* its num argument (setNumber), its bitmap (setSegments, operator[]), its
\* radix, value, leadingzero and dppos (setValue), the value it returned,
\* and _curdigit as it was at the call (from).
NoOp ==
  [kind |-> "none", index |-> 0, on |-> FALSE, num |-> 0, ret |-> TRUE,
   from |-> 0, bitmap |-> 0, radix |-> 0, value |-> 0,
   leadingzero |-> FALSE, dppos |-> 0]
Call(kind, index, on) ==
  [kind |-> kind, index |-> index, on |-> on, num |-> 0, ret |-> TRUE,
   from |-> _curdigit, bitmap |-> 0, radix |-> 0, value |-> 0,
   leadingzero |-> FALSE, dppos |-> 0]

Init ==
  /\ numdigits \in 1..MaxDigits
  /\ _display = [d \in Digits |-> 0]
  /\ _curdigit \in Uninitialized
  /\ dummy = 0
  /\ digitOut = [d \in Digits |-> FALSE]
  /\ segOut = [s \in Segments |-> FALSE]
  /\ bound = FALSE
  /\ pc = [c \in Contexts |-> "idle"]
  /\ newdigit = [c \in Contexts |-> 0]
  /\ b = [c \in Contexts |-> 0]
  /\ i = [c \in Contexts |-> 0]
  /\ t = [c \in Contexts |-> 0]
  /\ op = NoOp
  /\ tickStart = 0
  /\ tickCount = 0

\* ------------------------------------------------------------ observers
\* Variant of isBlank with > for >=.
isBlank_Strict == _curdigit > numdigits
\* bool isBlank()
isBlank == _curdigit >= numdigits
\* read through operator[]
Access(index) == IF index < numdigits THEN _display[index] ELSE dummy
DigitActive(k) == digitOut[k] = digiton
SegActive(s) == segOut[s] = segmenton
ActiveDigits == {k \in Digits : DigitActive(k)}
\* the bitmap the segment lines currently spell
SegPattern(s) == IF SegActive(s) THEN 1 ELSE 0

Goto(c, label) == pc' = [pc EXCEPT ![c] = label]
Return(c) ==
  /\ pc' = [pc EXCEPT ![c] = "idle"]
  /\ newdigit' = [newdigit EXCEPT ![c] = 0]
  /\ b' = [b EXCEPT ![c] = 0]
  /\ i' = [i EXCEPT ![c] = 0]
  /\ t' = [t EXCEPT ![c] = 0]
\* entry of showDigit(nd)
EnterShowDigit(c, nd) ==
  /\ pc' = [pc EXCEPT ![c] = "L173"]
  /\ newdigit' = [newdigit EXCEPT ![c] = nd]
  /\ UNCHANGED << b, i, t >>
NoTick == tickStart' = 0 /\ tickCount' = 0

obj == << numdigits, _display, _curdigit, dummy >>
hist == << bound, op, tickStart, tickCount >>

\* ------------------------------------------------------------ showDigit
\* line 173: if (_curdigit < _countof(_digitpins))
L173(c) ==
  /\ pc[c] = "L173"
  /\ Goto(c, IF _curdigit < numdigits THEN "L176" ELSE "L192")
  /\ UNCHANGED << obj, pins, locals, hist >>

\* Variant of line 176 that never turns the current digit off.
L176_KeepsOldDigit(c) ==
  /\ pc[c] = "L176"
  /\ Goto(c, "L184")
  /\ UNCHANGED << obj, pins, locals, hist >>

\* line 176: if (newdigit != _curdigit)
L176(c) ==
  /\ pc[c] = "L176"
  /\ Goto(c, IF newdigit[c] # _curdigit THEN "L178" ELSE "L184")
  /\ UNCHANGED << obj, pins, locals, hist >>

\* line 178: the argument _digitpins[_curdigit] is evaluated ...
L178(c) ==
  /\ pc[c] = "L178"
  /\ t' = [t EXCEPT ![c] = _curdigit]
  /\ Goto(c, "L178w")
  /\ UNCHANGED << obj, pins, newdigit, b, i, hist >>

\* ... and digitalWrite drives that pin to !digiton.  A value of _curdigit
\* that is no index of _digitpins names no pin of the display.
L178w(c) ==
  /\ pc[c] = "L178w"
  /\ digitOut' = IF t[c] \in Digits
                   THEN [digitOut EXCEPT ![t[c]] = ~digiton]
                   ELSE digitOut
  /\ Goto(c, "L184")
  /\ UNCHANGED << obj, segOut, locals, hist >>

\* Variant of line 184 that takes the entry out of the buffer.
L184_TakesEntry(c) ==
  /\ pc[c] = "L184"
  /\ b' = [b EXCEPT ![c] =
             IF newdigit[c] < numdigits THEN _display[newdigit[c]] ELSE 0]
  /\ _display' = IF newdigit[c] < numdigits
                   THEN [_display EXCEPT ![newdigit[c]] = 0]
                   ELSE _display
  /\ i' = [i EXCEPT ![c] = 0]
  /\ Goto(c, "L187")
  /\ UNCHANGED << numdigits, _curdigit, dummy, pins, newdigit, t, hist >>

\* Variant of line 184 whose pattern for a blank display is all ones.
L184_BlankAllOn(c) ==
  /\ pc[c] = "L184"
  /\ b' = [b EXCEPT ![c] =
             IF newdigit[c] < numdigits THEN _display[newdigit[c]] ELSE 255]
  /\ i' = [i EXCEPT ![c] = 0]
  /\ Goto(c, "L187")
  /\ UNCHANGED << obj, pins, newdigit, t, hist >>

\* line 184: byte b = (newdigit < _countof(_digitpins)) ? _display[newdigit] : 0
L184(c) ==
  /\ pc[c] = "L184"
  /\ b' = [b EXCEPT ![c] =
             IF newdigit[c] < numdigits THEN _display[newdigit[c]] ELSE 0]
  /\ i' = [i EXCEPT ![c] = 0]
  /\ Goto(c, "L187")
  /\ UNCHANGED << obj, pins, newdigit, t, hist >>

\* Variant of lines 185-188 whose loop stops before the last segment pin.
L187_StopsEarly(c) ==
  /\ pc[c] = "L187"
  /\ segOut' = [segOut EXCEPT ![i[c]] =
                  IF Bit(b[c], 0) = 1 THEN segmenton ELSE ~segmenton]
  /\ i' = [i EXCEPT ![c] = i[c] + 1]
  /\ b' = [b EXCEPT ![c] = b[c] \div 2]
  /\ Goto(c, IF i[c] + 2 < NumSegments THEN "L187" ELSE "L192")
  /\ UNCHANGED << obj, digitOut, newdigit, t, hist >>

\* lines 185-188: one round of the loop: digitalWrite(_segmentpins[i], ...),
\* then i++, b >>= 1 and the loop test
L187(c) ==
  /\ pc[c] = "L187"
  /\ segOut' = [segOut EXCEPT ![i[c]] =
                  IF Bit(b[c], 0) = 1 THEN segmenton ELSE ~segmenton]
  /\ i' = [i EXCEPT ![c] = i[c] + 1]
  /\ b' = [b EXCEPT ![c] = b[c] \div 2]
  /\ Goto(c, IF i[c] + 1 < NumSegments THEN "L187" ELSE "L192")
  /\ UNCHANGED << obj, digitOut, newdigit, t, hist >>

\* Variant of lines 192-195 placed inside the block of line 173.
L192_InsideBlock(c) ==
  /\ pc[c] = "L192"
  /\ digitOut' = IF newdigit[c] < numdigits /\ _curdigit < numdigits
                   THEN [digitOut EXCEPT ![newdigit[c]] = digiton]
                   ELSE digitOut
  /\ Goto(c, "L198")
  /\ UNCHANGED << obj, segOut, locals, hist >>

\* lines 192-195: if (newdigit < _countof(_digitpins)) digitalWrite(.., digiton)
L192(c) ==
  /\ pc[c] = "L192"
  /\ digitOut' = IF newdigit[c] < numdigits
                   THEN [digitOut EXCEPT ![newdigit[c]] = digiton]
                   ELSE digitOut
  /\ Goto(c, "L198")
  /\ UNCHANGED << obj, segOut, locals, hist >>

\* line 198: _curdigit = newdigit; showDigit is the last statement of every
\* caller, so the operation returns here.
L198(c) ==
  /\ pc[c] = "L198"
  /\ _curdigit' = ToByte(newdigit[c])
  /\ bound' = (bound \/ op.kind = "begin")
  /\ Return(c)
  /\ UNCHANGED << numdigits, _display, dummy, pins, op, ticks >>

showDigit(c) ==
  \/ L173(c)
  \/ L176(c)
  \/ L178(c)
  \/ L178w(c)
  \/ L184(c)
  \/ L187(c)
  \/ L192(c)
  \/ L198(c)

\* ----------------------------------------------------------------- show
\* The call of show().  Consecutive calls are counted, up to MaxTicks.
show(c) ==
  /\ pc[c] = "idle"
  /\ bound
  /\ IF op.kind = "show"
       THEN /\ tickCount < MaxTicks
            /\ tickCount' = tickCount + 1
            /\ tickStart' = tickStart
       ELSE /\ tickCount' = 1
            /\ tickStart' = _curdigit
  /\ op' = Call("show", 0, FALSE)
  /\ Goto(c, "L214")
  /\ UNCHANGED << obj, pins, locals, bound >>

\* Variant of line 214 without the test for a blanked display.
L214_IgnoresBlank(c) ==
  /\ pc[c] = "L214"
  /\ Goto(c, "L216")
  /\ UNCHANGED << obj, pins, locals, hist >>

\* line 214: if (_curdigit < _countof(_digitpins))
L214(c) ==
  /\ pc[c] = "L214"
  /\ Goto(c, IF _curdigit < numdigits THEN "L216" ELSE "idle")
  /\ UNCHANGED << obj, pins, locals, hist >>

\* Variant of lines 216-222 that wraps one digit early.
NextDigit_SkipsLast(cur) == IF cur + 2 >= numdigits THEN 0 ELSE cur + 1

\* Variant of lines 216-222 without the wrap to digit 0.
NextDigit_NoWrap(cur) == cur + 1

\* Variant of lines 216-222 with > for >= in the wrap test.
NextDigit_WrapsLate(cur) == IF cur + 1 > numdigits THEN 0 ELSE cur + 1

\* lines 216-222: nextdigit = _curdigit + 1, wrapped to 0
NextDigit(cur) == IF cur + 1 >= numdigits THEN 0 ELSE cur + 1

\* lines 216-224: compute nextdigit and call showDigit(nextdigit)
L216(c) ==
  /\ pc[c] = "L216"
  /\ EnterShowDigit(c, NextDigit(_curdigit))
  /\ UNCHANGED << obj, pins, hist >>

\* ------------------------------------------------------- begin, setBlank
\* Variant of line 264 with the two arms of ?: exchanged.
BlankTarget_Inverted(onoff) == IF onoff THEN 0 ELSE numdigits
\* Variant of line 264 that resumes at the rightmost digit.
BlankTarget_Rightmost(onoff) == IF onoff THEN numdigits ELSE numdigits - 1

\* line 264: the argument setBlank hands to showDigit
BlankTarget(onoff) == IF onoff THEN numdigits ELSE 0

\* The call of begin(digitpins, segmentpins, blank), once per object.
begin(c, blank) ==
  /\ pc[c] = "idle"
  /\ ~bound
  /\ op.kind # "begin"
  /\ op' = Call("begin", 0, blank)
  /\ NoTick
  /\ i' = [i EXCEPT ![c] = 0]
  /\ Goto(c, "L137")
  /\ UNCHANGED << obj, pins, newdigit, b, t, bound >>

\* lines 137-145: one round: pinMode(p, OUTPUT); digitalWrite(p, !digiton)
L137(c) ==
  /\ pc[c] = "L137"
  /\ digitOut' = [digitOut EXCEPT ![i[c]] = ~digiton]
  /\ IF i[c] + 1 < numdigits
       THEN i' = [i EXCEPT ![c] = i[c] + 1] /\ Goto(c, "L137")
       ELSE i' = [i EXCEPT ![c] = 0] /\ Goto(c, "L149")
  /\ UNCHANGED << obj, segOut, newdigit, b, t, hist >>

\* lines 149-157: one round: pinMode(p, OUTPUT); digitalWrite(p, !segmenton);
\* after the last round, line 159: setBlank(blank)
L149(c) ==
  /\ pc[c] = "L149"
  /\ segOut' = [segOut EXCEPT ![i[c]] = ~segmenton]
  /\ IF i[c] + 1 < NumSegments
       THEN /\ i' = [i EXCEPT ![c] = i[c] + 1]
            /\ Goto(c, "L149")
            /\ UNCHANGED << newdigit, b, t >>
       ELSE /\ i' = [i EXCEPT ![c] = 0]
            /\ pc' = [pc EXCEPT ![c] = "L173"]
            /\ newdigit' = [newdigit EXCEPT ![c] = BlankTarget(op.on)]
            /\ UNCHANGED << b, t >>
  /\ UNCHANGED << obj, digitOut, hist >>

\* The call of setBlank(onoff): showDigit(onoff ? _countof(_display) : 0)
setBlank(c, onoff) ==
  /\ pc[c] = "idle"
  /\ bound
  /\ op' = Call("setBlank", 0, onoff)
  /\ NoTick
  /\ EnterShowDigit(c, BlankTarget(onoff))
  /\ UNCHANGED << obj, pins, bound >>

\* ------------------------------------------------------------ operator[]
\* line 251: (index < _countof(_display)) ? _display[index] : dummy
AccessInRange(index) == index < numdigits

\* Variant of operator[] without the range check: the write lands in a
\* neighbouring byte of the object.
AccessWrite_Unchecked(c, index, v) ==
  /\ pc[c] = "idle"
  /\ op' = [Call("access", index, FALSE) EXCEPT !.bitmap = v]
  /\ NoTick
  /\ IF index < numdigits
       THEN _display' = [_display EXCEPT ![index] = v] /\ _curdigit' = _curdigit
       ELSE _curdigit' = v /\ _display' = _display
  /\ UNCHANGED << numdigits, dummy, pins, pc, locals, bound >>

\* A write through the reference operator[](index) returns: display[index] = v
AccessWrite(c, index, v) ==
  /\ pc[c] = "idle"
  /\ op' = [Call("access", index, FALSE) EXCEPT !.bitmap = v]
  /\ NoTick
  /\ IF AccessInRange(index)
       THEN _display' = [_display EXCEPT ![index] = v] /\ dummy' = dummy
       ELSE dummy' = v /\ _display' = _display
  /\ UNCHANGED << numdigits, _curdigit, pins, pc, locals, bound >>

\* ---------------------------------------------------------- setSegments
\* Variant of line 289 with <= for <.
SegmentsInRange_OffByOne(index) == index <= numdigits

\* line 289: if (index < _countof(_display))
SegmentsInRange(index) == index < numdigits

\* Variant of lines 289-297 that shows the digit whatever doshow is.
SegmentsBody_AlwaysShows(c, index, bitmap, doshow) ==
  IF SegmentsInRange(index)
    THEN /\ _display' = [_display EXCEPT ![index] = bitmap]
         /\ EnterShowDigit(c, index)
    ELSE UNCHANGED << _display, pc, locals >>

\* lines 289-297, the body of setSegments: store the bitmap and, if doshow,
\* call showDigit(index)
SegmentsBody(c, index, bitmap, doshow) ==
  IF SegmentsInRange(index)
    THEN /\ _display' = [_display EXCEPT ![index] = bitmap]
         /\ IF doshow
              THEN EnterShowDigit(c, index)
              ELSE UNCHANGED << pc, locals >>
    ELSE UNCHANGED << _display, pc, locals >>

\* The call of setSegments(index, bitmap, doshow).  Before begin() the pins
\* are not set up and callers only fill the buffer (doshow = false).
setSegments(c, index, bitmap, doshow) ==
  /\ pc[c] = "idle"
  /\ doshow => bound
  /\ op' = [Call("setSegments", index, doshow) EXCEPT !.bitmap = bitmap]
  /\ NoTick
  /\ SegmentsBody(c, index, bitmap, doshow)
  /\ UNCHANGED << numdigits, _curdigit, dummy, pins, bound >>

\* ------------------------------------------------------------ setNumber
\* line 314: if ((index < _countof(_digitpins)) && (num <= 16))
NumberGuard(index, num) == index < numdigits /\ num <= 16

\* line 336: the values the read table[num] can give; num = 16 passes the
\* guard and reads one past the 16 entries
TableRead(num) == IF num < 16 THEN {table[num + 1]} ELSE TableOverrun

\* line 336: table[num] | (dp ? B10000000 : 0)
Glyph(entry, dp) == IF dp THEN OrDp(entry) ELSE entry

\* The call of setNumber(index, num, dp, doshow)
setNumber(c, index, num, dp, doshow) ==
  /\ pc[c] = "idle"
  /\ doshow => bound
  /\ op' = [Call("setNumber", index, doshow) EXCEPT !.num = num]
  /\ NoTick
  /\ IF NumberGuard(index, num)
       THEN \E entry \in TableRead(num) :
              SegmentsBody(c, index, Glyph(entry, dp), doshow)
       ELSE UNCHANGED << _display, pc, locals >>
  /\ UNCHANGED << numdigits, _curdigit, dummy, pins, bound >>

\* ------------------------------------------------------------- setValue
\* Variant of line 358 without the (i == _countof(_display) - 1) operand.
ShowsGlyph_NoRightmost(v, value, leadingzero, dppos, idx) ==
  \/ v # 0
  \/ value # 0
  \/ leadingzero
  \/ idx >= dppos

\* line 358: the digit is written as a glyph (else: as an all-off pattern)
ShowsGlyph(v, value, leadingzero, dppos, idx) ==
  \/ v # 0
  \/ value # 0
  \/ leadingzero
  \/ idx >= dppos
  \/ idx = numdigits - 1

\* Variant of line 353 with the radix fixed to ten.
ValueDigit_Decimal(value, radix, leadingzero, dppos, idx) ==
  LET v == ToByte(value % 10)
  IN  IF ShowsGlyph(v, value, leadingzero, dppos, idx)
        THEN Glyph(table[v + 1], dppos = idx)
        ELSE (IF dppos = idx THEN 128 ELSE 0)

\* lines 353-365: what one round of the loop stores at position idx
\* (v < radix <= 16, so setNumber's guard holds and table[v] is an entry)
ValueDigit(value, radix, leadingzero, dppos, idx) ==
  LET v == ToByte(value % radix)
  IN  IF ShowsGlyph(v, value, leadingzero, dppos, idx)
        THEN Glyph(table[v + 1], dppos = idx)
        ELSE (IF dppos = idx THEN 128 ELSE 0)

\* lines 350-368: the loop, from position k - 1 down to 0; the buffer and
\* the value that is left
RECURSIVE ValueLoop(_, _, _, _, _, _)
ValueLoop(disp, k, value, radix, leadingzero, dppos) ==
  IF k = 0
    THEN [disp |-> disp, value |-> value]
    ELSE ValueLoop(
           [disp EXCEPT ![k - 1] =
              ValueDigit(value, radix, leadingzero, dppos, k - 1)],
           k - 1, value \div radix, radix, leadingzero, dppos)

\* The call of setValue<radix>(value, leadingzero, dppos); returns !value
setValue(c, radix, value, leadingzero, dppos) ==
  /\ pc[c] = "idle"
  /\ LET r == ValueLoop(_display, numdigits, value, radix, leadingzero, dppos)
     IN  /\ _display' = r.disp
         /\ op' = [Call("setValue", 0, FALSE) EXCEPT
                    !.radix = radix, !.value = value,
                    !.leadingzero = leadingzero, !.dppos = dppos,
                    !.ret = (r.value = 0)]
  /\ NoTick
  /\ UNCHANGED << numdigits, _curdigit, dummy, pins, pc, locals, bound >>

\* ---------------------------------------------------------------- Spec
\* One execution context (the sketch's loop()) calls the public functions
\* one after the other, with any arguments.
Statement(c) ==
  \/ showDigit(c)
  \/ L214(c)
  \/ L216(c)
  \/ L137(c)
  \/ L149(c)

Next ==
  \/ \E blank \in BOOLEAN : begin("main", blank)
  \/ show("main")
  \/ \E onoff \in BOOLEAN : setBlank("main", onoff)
  \/ \E index \in Indices, v \in AccessBitmaps : AccessWrite("main", index, v)
  \/ \E index \in Indices, bitmap \in Bitmaps, sh \in BOOLEAN :
       setSegments("main", index, bitmap, sh)
  \/ \E index \in Indices, num \in Nums, dp \in BOOLEAN, sh \in BOOLEAN :
       setNumber("main", index, num, dp, sh)
  \/ \E value \in Values, dppos \in {numdigits - 1, numdigits} :
       setValue("main", 10, value, FALSE, dppos)
  \/ Statement("main")

Spec == Init /\ [][Next]_vars

\* ----------------------------------------------------------- SpecValue
\* setValue as a function of its arguments: one call of setValue, with any
\* radix of Radixes, any value up to MaxValue, either leadingzero and any
\* dppos, on a display of up to MaxDigits + 1 digits (the sketch has 4) of
\* static storage, whose buffer is as constructed or has one entry filled.
Radixes == {2, 10, 16}

InitValue ==
  /\ numdigits \in 1..(MaxDigits + 1)
  /\ _display = [d \in Digits |-> 0]
  /\ _curdigit = 0
  /\ dummy = 0
  /\ digitOut = [d \in Digits |-> FALSE]
  /\ segOut = [sg \in Segments |-> FALSE]
  /\ bound = FALSE
  /\ pc = [c \in Contexts |-> "idle"]
  /\ newdigit = [c \in Contexts |-> 0]
  /\ b = [c \in Contexts |-> 0]
  /\ i = [c \in Contexts |-> 0]
  /\ t = [c \in Contexts |-> 0]
  /\ op = NoOp
  /\ tickStart = 0
  /\ tickCount = 0

NextValue ==
  \/ /\ op.kind = "none"
     /\ \E index \in Digits : setSegments("main", index, 134, FALSE)
  \/ /\ op.kind # "setValue"
     /\ \E radix \in Radixes, value \in 0..MaxValue,
           leadingzero \in BOOLEAN, dppos \in 0..numdigits :
          setValue("main", radix, value, leadingzero, dppos)

SpecValue == InitValue /\ [][NextValue]_vars

\* ------------------------------------------------------------- SpecIsr
\* show() is called from a timer callback (context "isr") while loop()
\* (context "main") calls begin, setBlank and setSegments.  The callback is
\* attached once begin() has returned, it can start between any two steps
\* of main, and main does not run until the callback has returned.
IsrStatement ==
  \/ showDigit("isr")
  \/ L214("isr")
  \/ L216("isr")

\* main runs while no callback is running
MainRuns == pc["isr"] = "idle"

NextIsr ==
  \/ \E blank \in BOOLEAN : MainRuns /\ begin("main", blank)
  \/ \E onoff \in BOOLEAN : MainRuns /\ setBlank("main", onoff)
  \/ \E index \in Indices, bitmap \in Bitmaps, sh \in BOOLEAN :
       MainRuns /\ setSegments("main", index, bitmap, sh)
  \/ MainRuns /\ Statement("main")
  \/ show("isr")
  \/ IsrStatement

SpecIsr == Init /\ [][NextIsr]_vars

\* ------------------------------------------------------------ SpecLive
\* loop() runs for ever: it calls show() once per round (Timer.ino line
\* 132) and whatever other functions in between, and a function that was
\* called runs to its end.  A show() that follows MaxTicks counted calls
\* starts the count again.
showRecount(c) ==
  /\ pc[c] = "idle"
  /\ bound
  /\ op.kind = "show"
  /\ tickCount = MaxTicks
  /\ tickCount' = 1
  /\ tickStart' = _curdigit
  /\ op' = Call("show", 0, FALSE)
  /\ Goto(c, "L214")
  /\ UNCHANGED << obj, pins, locals, bound >>

Tick == show("main") \/ showRecount("main")

NextLive ==
  \/ \E blank \in BOOLEAN : begin("main", blank)
  \/ Tick
  \/ \E onoff \in BOOLEAN : setBlank("main", onoff)
  \/ \E index \in Indices, v \in AccessBitmaps : AccessWrite("main", index, v)
  \/ \E index \in Indices, bitmap \in Bitmaps, sh \in BOOLEAN :
       setSegments("main", index, bitmap, sh)
  \/ Statement("main")

SpecLive ==
  /\ Init
  /\ [][NextLive]_vars
  /\ WF_vars(Statement("main"))
  /\ SF_vars(Tick)

\* =============================================================== claims
InShowDigit(c) ==
  pc[c] \in {"L173", "L176", "L178", "L178w", "L184", "L187", "L192", "L198"}
\* showDigit is switching from a shown digit to another digit in range
Switching(c) ==
  /\ InShowDigit(c)
  /\ _curdigit < numdigits
  /\ newdigit[c] < numdigits
  /\ newdigit[c] # _curdigit
\* the segment lines spell the buffer entry of digit d
Spells(d) == \A s \in Segments : SegPattern(s) = Bit(_display[d], s)
Idle == pc["main"] = "idle"

\* C1: once begin() has returned, in every state, the states between two
\* line writes of one operation included, at most one digit line is at its
\* active level.
C1_AtMostOneDigitActive == bound => Cardinality(ActiveDigits) <= 1

\* A switch from digit 0 to digit 1 by setSegments(1, .., true), after the
\* new digit line was driven active and before _curdigit is stored.
C1_Witness ==
  /\ bound
  /\ op.kind = "setSegments"
  /\ pc["main"] = "L198"
  /\ _curdigit = 0
  /\ newdigit["main"] = 1
  /\ ActiveDigits = {1}

\* C2: when showDigit switches from a shown digit to another digit in
\* range, the old digit line is inactive before the first segment write, no
\* digit line is active while the segment lines are written (no segment
\* line is written while a digit line other than the target's is active),
\* the segment lines spell the target's pattern before the target's line is
\* driven active, and only then the target's line is active.
C2_SwitchOrder ==
  /\ \A c \in {"main"} :
       (InShowDigit(c) /\ pc[c] \in {"L184", "L187"})
         => ActiveDigits \subseteq {newdigit[c]}
  /\ Switching("main") =>
       /\ pc["main"] \in {"L184", "L187"} => ActiveDigits = {}
       /\ pc["main"] = "L192" =>
            ActiveDigits = {} /\ Spells(newdigit["main"])
       /\ pc["main"] = "L198" => ActiveDigits = {newdigit["main"]}

\* A switch at the point where the new digit line is about to be driven
\* active, the pattern B10000110 of the new digit being on the lines.
C2_Witness ==
  /\ Switching("main")
  /\ bound
  /\ pc["main"] = "L192"
  /\ _display[newdigit["main"]] = 134
  /\ _display[_curdigit] # 134

\* C3: once begin() has returned, the cursor is in 0..numdigits and
\* isBlank() is true exactly when the cursor is numdigits.
C3_CursorRange ==
  bound => /\ _curdigit \in 0..numdigits
           /\ isBlank <=> (_curdigit = numdigits)

\* Blanked by setBlank(true) while the last digit was shown.
C3_Witness ==
  /\ bound
  /\ Idle
  /\ op.kind = "setBlank"
  /\ op.from = numdigits - 1
  /\ numdigits = MaxDigits
  /\ isBlank

\* C4: after the k-th consecutive show() from a cursor c in range, the
\* cursor is (c + k) mod numdigits and that digit line is the active one.
C4_TickCycle ==
  (Idle /\ op.kind = "show" /\ tickStart < numdigits) =>
    /\ _curdigit = (tickStart + tickCount) % numdigits
    /\ ActiveDigits = {_curdigit}

\* numdigits consecutive show() calls from digit 1 of a 3-digit display:
\* the cursor is back on digit 1.
C4_Witness ==
  /\ Idle
  /\ op.kind = "show"
  /\ numdigits = 3
  /\ tickStart = 1
  /\ tickCount = 3
  /\ _curdigit = 1

\* the operation called last selects a digit: begin, show, setBlank(false),
\* or a set function with show = true, an index in range and (setNumber) a
\* value of the table
Selects ==
  \/ op.kind \in {"begin", "show"}
  \/ op.kind = "setBlank" /\ ~op.on
  \/ op.kind = "setSegments" /\ op.on /\ op.index < numdigits
  \/ op.kind = "setNumber" /\ op.on /\ op.index < numdigits /\ op.num <= 15

\* C5: whenever an operation that selects a digit has completed with the
\* display not blanked, segment line s is active exactly when bit s of the
\* buffer entry of the cursor digit is 1, whatever the state was before.
C5_SegmentsSpellCursorDigit ==
  (bound /\ Idle /\ Selects /\ ~isBlank) => Spells(_curdigit)

\* C6: show() on a blanked display writes no line and changes neither the
\* cursor nor the buffer: it returns from line 214.
C6_TickWhileBlanked ==
  [][(op'.kind = "show" /\ isBlank) =>
       /\ UNCHANGED << _display, _curdigit, dummy, digitOut, segOut >>
       /\ pc'["main"] \in {"L214", "idle"}]_vars

\* Two consecutive show() calls have returned on a blanked display whose
\* buffer is not empty.
C6_Witness ==
  /\ bound
  /\ Idle
  /\ op.kind = "show"
  /\ tickCount = 2
  /\ isBlank
  /\ op.from = numdigits
  /\ \E d \in Digits : _display[d] # 0

\* C7: when begin(.., blank) or setBlank(onoff) has returned, isBlank() is
\* the flag that was passed.
C7_BlankFlag ==
  (Idle /\ op.kind \in {"begin", "setBlank"}) => (isBlank <=> op.on)

\* begin(.., true) has returned on an object whose uninitialized cursor
\* named a digit.
C7_Witness ==
  /\ Idle
  /\ op.kind = "begin"
  /\ op.on
  /\ op.from < numdigits
  /\ isBlank

\* C8: when setBlank(false) has returned, the cursor is 0 and digit line 0
\* is the one active digit line, whatever the cursor was before.
C8_UnblankAtLeftmost ==
  (Idle /\ op.kind = "setBlank" /\ ~op.on) =>
    /\ _curdigit = 0
    /\ ActiveDigits = {0}

\* setBlank(false) has returned on a 3-digit display that was blanked.
C8_Witness ==
  /\ Idle
  /\ op.kind = "setBlank"
  /\ ~op.on
  /\ op.from = numdigits
  /\ numdigits = 3
  /\ _curdigit = 0

\* C9: setSegments and setNumber with an index that is no digit index
\* return at once and change no buffer entry, not the cursor and no line.
C9_IndexOutOfRange ==
  [][(Idle /\ op'.kind \in {"setSegments", "setNumber"}
           /\ op'.index >= numdigits) =>
       /\ UNCHANGED << _display, _curdigit, digitOut, segOut >>
       /\ pc'["main"] = "idle"]_vars

\* setNumber(numdigits, .., show = true) has returned on a display that
\* shows digit 0.
C9_Witness ==
  /\ bound
  /\ Idle
  /\ op.kind = "setNumber"
  /\ op.index = numdigits
  /\ op.on
  /\ _curdigit = 0
  /\ _display[0] # 0

\* C10: a write through operator[] with an index that is no digit index
\* changes no buffer entry, not the cursor and no line; the value goes to
\* dummy.
C10_AccessOutOfRange ==
  [][(Idle /\ op'.kind = "access" /\ op'.index >= numdigits) =>
       /\ UNCHANGED << _display, _curdigit, digitOut, segOut, pc >>
       /\ dummy' \in AccessBitmaps]_vars

\* display[numdigits] = B00000110 has been executed on a display that shows
\* a digit whose entry is another bitmap.
C10_Witness ==
  /\ bound
  /\ Idle
  /\ op.kind = "access"
  /\ op.index = numdigits
  /\ dummy = 6
  /\ ~isBlank
  /\ \A d \in Digits : _display[d] # 6

\* C11: setNumber with a num that is no index of the 16-entry table (16 and
\* above) returns at once: no buffer entry, not the cursor and no line
\* changes, and showDigit is not entered.
C11_NumOutOfTable ==
  [][(Idle /\ op'.kind = "setNumber" /\ op'.num >= 16) =>
       /\ UNCHANGED << _display, _curdigit, digitOut, segOut >>
       /\ pc'["main"] = "idle"]_vars

\* C12: before the first call of any function, every buffer entry is 0 and
\* isBlank() is true.
C12_ConstructedBlank ==
  op.kind = "none" =>
    /\ \A d \in Digits : _display[d] = 0
    /\ isBlank

RECURSIVE Pow(_, _)
Pow(r, n) == IF n = 0 THEN 1 ELSE r * Pow(r, n - 1)
\* the radix digit of value that belongs at position idx (0 = leftmost)
RadixDigit(value, radix, idx) ==
  (value \div Pow(radix, numdigits - 1 - idx)) % radix

\* C13: setValue returns true exactly when value < radix ^ numdigits; when
\* it returns false, position d holds the glyph of the radix digit of
\* value mod radix ^ numdigits for that position, most significant at 0.
C13_ValueOverflow ==
  op.kind = "setValue" =>
    /\ op.ret <=> (op.value < Pow(op.radix, numdigits))
    /\ ~op.ret =>
         \A d \in Digits :
           _display[d] % 128 =
             table[RadixDigit(op.value % Pow(op.radix, numdigits),
                              op.radix, d) + 1]

\* 1234 on three decimal digits: false, and "234" in the buffer
C13_Witness ==
  /\ op.kind = "setValue"
  /\ ~op.ret
  /\ numdigits = 3
  /\ op.radix = 10
  /\ op.value = 1234
  /\ _display = (0 :> 91) @@ (1 :> 79) @@ (2 :> 102)

\* C14: after setValue, position d holds the all-off pattern exactly when
\* leadingzero is false, d is left of dppos, d is not the rightmost
\* position and value has no nonzero digit at d or to its left; every other
\* position holds the glyph of its digit, with the decimal point bit set
\* exactly at position dppos.
C14_ValuePositions ==
  op.kind = "setValue" =>
    \A d \in Digits :
      LET hidden == /\ ~op.leadingzero
                    /\ d < op.dppos
                    /\ d # numdigits - 1
                    /\ op.value \div Pow(op.radix, numdigits - 1 - d) = 0
      IN  /\ (_display[d] = 0) <=> hidden
          /\ ~hidden =>
               _display[d] =
                 table[RadixDigit(op.value, op.radix, d) + 1]
                   + (IF op.dppos = d THEN 128 ELSE 0)

\* setValue(12, false, 2) on four digits: blank, blank, "1." and "2"
C14_Witness ==
  /\ op.kind = "setValue"
  /\ numdigits = 4
  /\ op.radix = 10
  /\ op.value = 12
  /\ ~op.leadingzero
  /\ op.dppos = 2
  /\ _display = (0 :> 0) @@ (1 :> 0) @@ (2 :> 134) @@ (3 :> 91)

\* C15: what a read through operator[] returns at an in-range index is the
\* bitmap that setSegments or a write through operator[] stored there, and
\* no step of show() or of setBlank() changes any buffer entry.
C15_BufferKept ==
  [][/\ (op'.kind \in {"setSegments", "access"} /\ op'.index < numdigits) =>
          _display'[op'.index] = op'.bitmap
     /\ op'.kind \in {"show", "setBlank"} => _display' = _display]_vars

\* a stored bitmap is still in the buffer after the display was blanked,
\* shown again and ticked MaxTicks times
C15_Witness ==
  /\ Idle
  /\ op.kind = "show"
  /\ tickCount = MaxTicks
  /\ numdigits = 2
  /\ _display = (0 :> 134) @@ (1 :> 6)

\* C16: a write through operator[], setSegments and setNumber with
\* show = false, and setValue return without a change of the cursor or of
\* any digit or segment line, blanked or showing.
C16_BufferOnly ==
  [][(/\ Idle
      /\ \/ op'.kind \in {"access", "setValue"}
         \/ op'.kind \in {"setSegments", "setNumber"} /\ ~op'.on) =>
       /\ UNCHANGED << _curdigit, digitOut, segOut >>
       /\ pc'["main"] = "idle"]_vars

\* setSegments(index, .., false) has changed the entry of the digit that is
\* shown: the segment lines still spell the entry as it was
C16_Witness ==
  /\ Idle
  /\ bound
  /\ op.kind = "setSegments"
  /\ ~op.on
  /\ op.index = _curdigit
  /\ _display[_curdigit] = op.bitmap
  /\ DigitActive(_curdigit)
  /\ ~Spells(_curdigit)

\* C17: when setSegments(index, bitmap, true) or setNumber(index, num, dp,
\* true) with index in range and num in 0..15 has returned, the cursor is
\* index, isBlank() is false and digit line index is the one active line.
C17_ForcedShow ==
  (/\ Idle
   /\ op.on
   /\ op.index < numdigits
   /\ \/ op.kind = "setSegments"
      \/ op.kind = "setNumber" /\ op.num <= 15) =>
    /\ _curdigit = op.index
    /\ ~isBlank
    /\ ActiveDigits = {op.index}

\* setNumber(index, 1, dp, true) on a blanked display
C17_Witness ==
  /\ Idle
  /\ op.kind = "setNumber"
  /\ op.on
  /\ op.num = 1
  /\ op.index = numdigits - 1
  /\ op.from >= numdigits
  /\ _curdigit = op.index

\* C18 as stated: from a cursor c in range and with show() only, the
\* cursor is c again when the (numdigits + 1)-th call has returned.
C18_ReturnsOnNPlusOne ==
  (Idle /\ op.kind = "show" /\ tickStart < numdigits
        /\ tickCount = numdigits + 1) =>
    _curdigit = tickStart

\* C18, amended: from a cursor c in range and with show() only, the cursor
\* is c again exactly after the calls whose count is a multiple of
\* numdigits, the numdigits-th being the first; the (numdigits + 1)-th call
\* selects the digit after c.
C18_ReturnsOnN ==
  (Idle /\ op.kind = "show" /\ tickStart < numdigits) =>
    /\ (_curdigit = tickStart) <=> (tickCount % numdigits = 0)
    /\ tickCount = numdigits + 1 =>
         _curdigit = (tickStart + 1) % numdigits

\* the third show() from digit 1 of a 2-digit display: digit 0 is shown
C18_Witness ==
  /\ Idle
  /\ op.kind = "show"
  /\ numdigits = 2
  /\ tickStart = 1
  /\ tickCount = numdigits + 1
  /\ _curdigit = 0
  /\ DigitActive(0)

\* C19: after begin(), whenever no function is running, digit line k is
\* active exactly when the cursor is k, so that no digit line is active
\* when the display is blanked; and in every state where the display is
\* blanked, every segment line is inactive.
C19_LinesFollowCursor ==
  bound =>
    /\ Idle => \A k \in Digits : DigitActive(k) <=> (_curdigit = k)
    /\ isBlank => \A sg \in Segments : ~SegActive(sg)

\* setBlank(true) has blanked a display that showed a digit with a
\* non-empty entry
C19_Witness ==
  /\ bound
  /\ Idle
  /\ op.kind = "setBlank"
  /\ op.on
  /\ isBlank
  /\ op.from < numdigits
  /\ _display[op.from] = 134
  /\ ActiveDigits = {}

\* C20: show() runs in a timer callback that can start between any two
\* steps of setBlank or setSegments(.., true) in loop(); when both have
\* returned, every active digit line is the line of the cursor, so at most
\* one is active, and none when the display is blanked.
C20_PreemptedLines ==
  (bound /\ pc["main"] = "idle" /\ pc["isr"] = "idle") =>
    \A k \in Digits : DigitActive(k) => _curdigit = k

\* show() has just been called
Ticking == op.kind = "show" /\ pc["main"] = "L214"
\* the function called last moves the cursor to a digit of its own choice
Forced ==
  \/ op.kind = "setBlank"
  \/ op.kind \in {"setSegments", "setNumber"} /\ op.on
TicksForever == []<>Ticking
NeverBlanked == [](bound => ~isBlank)

\* C21 as stated: if show() is called infinitely often and the display is
\* never blanked once begin() has returned, every digit line is active
\* infinitely often, whatever other functions are called in between.
C21_EveryDigitShown ==
  (TicksForever /\ NeverBlanked) =>
    \A d \in 0..(MaxDigits - 1) : []<>(d < numdigits => DigitActive(d))

\* C21, amended: if show() is called infinitely often, the display is never
\* blanked once begin() has returned, and no setBlank and no set function
\* with show = true is called, every digit line is active infinitely often.
C21_EveryDigitShownUnforced ==
  (TicksForever /\ NeverBlanked /\ []~Forced) =>
    \A d \in 0..(MaxDigits - 1) : []<>(d < numdigits => DigitActive(d))

\* show() has brought the rightmost digit up, after begin(.., false) and a
\* write to the buffer that left the cursor alone
C21_Witness ==
  /\ Idle
  /\ op.kind = "show"
  /\ numdigits = MaxDigits
  /\ tickCount >= 2
  /\ _curdigit = numdigits - 1
  /\ DigitActive(numdigits - 1)
  /\ _display[numdigits - 1] = 6

====
